---- MODULE Spec2Model ----
(***************************************************************************)
(* Hierarchical ticket creation (createJiraTicketsAction) of the           *)
(* TestAssistant repository, in the three revisions of app/actions.ts      *)
(* that the repository holds:                                              *)
(*   "actions"  - src/src/app/actions.ts   (lines 408-520)                 *)
(*   "part_004" - src/unnamed/part_004     (lines 408-499)                 *)
(*   "part_003" - src/unnamed/part_003     (lines 578-701, batched)        *)
(*                                                                         *)
(* The draft tree is a forest over the node ids 1..size, numbered in       *)
(* pre-order, so that the children of a node, in their array order, are    *)
(* the nodes naming it as parent in increasing id order.  parentOf[n] = 0  *)
(* marks a root.  A node's summary is identified with its id.              *)
(*                                                                         *)
(* The tracker (the fetch to POST /rest/api/3/issue) is the environment:   *)
(* each request is answered by a 2xx response carrying the created issue,  *)
(* by a non-2xx response, or the fetch promise rejects.  A 2xx response of  *)
(* the tracker carries the created issue {id, key}, so result.data is      *)
(* truthy whenever result.success is.  Keys are drawn from a counter that  *)
(* starts above the node ids, so that a key never equals a node id.        *)
(***************************************************************************)
EXTENDS Integers, Sequences, FiniteSets, TLC

\* Largest number of draft nodes in the input forest.
MaxNodes == 3

\* Largest number of draft nodes when the texts of the nodes vary too.
MaxDraftNodes == 2

\* src/unnamed/part_003:607
BATCH_SIZE == 10

\* z.enum of DraftTicketRecursiveSchema
Kinds == {"Epic", "Story", "Task", "Sub-task", "Bug"}

Versions == {"actions", "part_004", "part_003"}

\* undefined parentJiraKey / absent payload field
NoKey == 0

\* A text of a draft node is the sequence of its lines; <<>> is the empty
\* string (or an absent acceptanceCriteria)
Descriptions == {<<>>, <<"desc">>}

Criteria == {<<>>, <<"ac">>}

VARIABLES
  version,               \* which revision of createJiraTicketsAction runs
  size,                  \* number of nodes of the draft forest
  parentOf,              \* node -> parent node, 0 for a root
  kind,                  \* node -> ticket.type
  description,           \* node -> ticket.description, as its lines
  acceptanceCriteria,    \* node -> ticket.acceptanceCriteria, <<>> if absent
  pc,                    \* position of the async function
  i,                     \* part_003: index of the batch loop
  stack,                 \* activations of createTicketsRecursively
  nextKey,               \* next issue key the tracker will assign
  keyOf,                 \* node -> key returned for it, NoKey if none
  status,                \* node -> "pending" | "inflight" | "created" | "failed" | "raised"
  calls,                 \* payloads posted to the tracker, in order
  createdTicketsResult,  \* createdTicketsResult array
  errorMessages,         \* errorMessages array
  result,                \* the returned object, once returned
  revision,              \* which revision of markdownToAdf runs
  markdown,              \* markdownToAdf's argument, a string of characters
  adf,                   \* the document handed from encoder to decoder
  text,                  \* extractTextFromADF's result
  tpc                    \* position of the encode/decode run

vars == <<version, size, parentOf, kind, description, acceptanceCriteria, pc, i, stack, nextKey, keyOf, status,
          calls, createdTicketsResult, errorMessages, result,
          revision, markdown, adf, text, tpc>>

\* the state of the rich-document transducer
transducer == <<revision, markdown, adf, text, tpc>>

\* null / absent document
Null == [type |-> "null"]

\* no encode/decode run is under way
TransducerIdle ==
  /\ revision = "inList"
  /\ markdown = <<>>
  /\ adf = Null
  /\ text = <<>>
  /\ tpc = "idle"

draft == <<version, size, parentOf, kind, description, acceptanceCriteria>>

----------------------------------------------------------------------------
\* The draft forest

Nodes == 1..size

RECURSIVE Ancestors(_, _)
Ancestors(f, n) == IF f[n] = 0 THEN {} ELSE {f[n]} \cup Ancestors(f, f[n])

\* f numbers a forest in pre-order: the parent of k is a node on the path
\* from the root to k-1
PreOrder(f, n) ==
  \A k \in 1..n :
      /\ f[k] < k
      /\ f[k] # 0 => f[k] \in ({k - 1} \cup Ancestors(f, k - 1))

Range(f) == {f[x] : x \in DOMAIN f}

RECURSIVE SetToSeq(_)
SetToSeq(S) ==
  IF S = {} THEN <<>>
  ELSE LET m == CHOOSE x \in S : \A y \in S : x <= y
       IN  <<m>> \o SetToSeq(S \ {m})

\* Children in reverse array order
Children_Reversed(p) ==
  LET c == SetToSeq({n \in Nodes : parentOf[n] = p})
  IN  [k \in 1..Len(c) |-> c[Len(c) + 1 - k]]

\* ticket.children, in array order (tickets for p = 0)
Children(p) == SetToSeq({n \in Nodes : parentOf[n] = p})

tickets == Children(0)

\* Array.prototype.slice(from, to) with 0-based, end-exclusive indices
Slice(s, from, to) ==
  LET hi == IF to < Len(s) THEN to ELSE Len(s)
  IN  IF from >= hi THEN <<>> ELSE SubSeq(s, from + 1, hi)

RECURSIVE CountAll(_)
\* countAllDraftTickets
CountAll(list) ==
  IF list = <<>> THEN 0
  ELSE 1 + CountAll(Children(Head(list))) + CountAll(Tail(list))

countAllDraftTickets == CountAll(tickets)

----------------------------------------------------------------------------
\* createSingleTicket: the payload posted for a node

RECURSIVE TrimLines(_)
\* String.prototype.trim on a text made of whole lines: blank lines at
\* either end go
TrimLines(t) ==
  IF t = <<>> THEN <<>>
  ELSE IF Head(t) = "" THEN TrimLines(Tail(t))
  ELSE IF t[Len(t)] = "" THEN TrimLines(SubSeq(t, 1, Len(t) - 1))
  ELSE t

\* the text handed to textToAdf: ticketData.description, in part_003
\* followed by the acceptance criteria under their caption, trimmed
CombinedDescriptionText(n) ==
  IF version = "part_003"
  THEN TrimLines(description[n] \o
                 (IF acceptanceCriteria[n] # <<>>
                  THEN <<"", "Acceptance Criteria:">> \o acceptanceCriteria[n]
                  ELSE <<>>))
  ELSE description[n]

\* payload.fields of the POST; parent is set for a Sub-task with a truthy
\* parentJiraKey only, and no revision ever sets an Epic Link field
Payload(n, parentJiraKey) ==
  [ node      |-> n,
    summary   |-> n,
    description |-> CombinedDescriptionText(n),
    issuetype |-> kind[n],
    parent    |-> IF parentJiraKey # NoKey /\ kind[n] = "Sub-task"
                  THEN parentJiraKey ELSE NoKey,
    epic      |-> NoKey ]

\* the string pushed to errorMessages for a non-2xx response
ErrorMessage(n) == [ node |-> n, type |-> kind[n] ]

\* NewParentKey with the Epic test of part_003 inverted
NewParentKey_EpicOnly(n, key) ==
  IF version = "part_003"
  THEN (IF kind[n] = "Epic" THEN key ELSE NoKey)
  ELSE key

\* newParentKey / newParentKeyForChildren
NewParentKey(n, key) ==
  IF version = "part_003"
  THEN (IF kind[n] # "Epic" THEN key ELSE NoKey)
  ELSE key

----------------------------------------------------------------------------
\* Result aggregation

Message(t, c, tot, errs) ==
  [ template |-> t, count |-> c, total |-> tot, errors |-> errs ]

\* AggregateActions with the "tickets.length > 0" test of the fourth branch
\* dropped
AggregateActions_NoLengthTest(created, errors) ==
  LET overallSuccess == Len(errors) = 0
      n == Len(created)
  IN  IF n > 0 /\ overallSuccess
        THEN [success |-> TRUE,
              message |-> Message("Successfully created", <<n>>, <<>>, <<>>)]
      ELSE IF n > 0 /\ ~overallSuccess
        THEN [success |-> FALSE,
              message |-> Message("Partially created", <<n>>, <<>>, errors)]
      ELSE IF n = 0 /\ ~overallSuccess
        THEN [success |-> FALSE,
              message |-> Message("Failed to create any", <<>>, <<>>, errors)]
      ELSE IF n = 0 /\ overallSuccess
        THEN [success |-> FALSE,
              message |-> Message("No tickets were created", <<>>, <<>>, <<>>)]
      ELSE IF Len(tickets) = 0
        THEN [success |-> TRUE,
              message |-> Message("No tickets were provided", <<>>, <<>>, <<>>)]
      ELSE [success |-> overallSuccess,
            message |-> Message("", <<>>, <<>>, <<>>)]

\* AggregateActions reporting success as soon as one ticket was created
AggregateActions_SuccessWhenAnyCreated(created, errors) ==
  IF Len(created) > 0
  THEN [success |-> TRUE,
        message |-> Message("Successfully created", <<Len(created)>>, <<>>, <<>>)]
  ELSE [success |-> Len(tickets) = 0,
        message |-> Message("", <<>>, <<>>, <<>>)]

\* src/src/app/actions.ts:489-519
AggregateActions(created, errors) ==
  LET overallSuccess == Len(errors) = 0
      n == Len(created)
  IN  IF n > 0 /\ overallSuccess
        THEN [success |-> TRUE,
              message |-> Message("Successfully created", <<n>>, <<>>, <<>>)]
      ELSE IF n > 0 /\ ~overallSuccess
        THEN [success |-> FALSE,
              message |-> Message("Partially created", <<n>>, <<>>, errors)]
      ELSE IF n = 0 /\ ~overallSuccess
        THEN [success |-> FALSE,
              message |-> Message("Failed to create any", <<>>, <<>>, errors)]
      ELSE IF n = 0 /\ overallSuccess /\ Len(tickets) > 0
        THEN [success |-> FALSE,
              message |-> Message("No tickets were created", <<>>, <<>>, <<>>)]
      ELSE IF Len(tickets) = 0
        THEN [success |-> TRUE,
              message |-> Message("No tickets were provided", <<>>, <<>>, <<>>)]
      ELSE [success |-> overallSuccess,
            message |-> Message("", <<>>, <<>>, <<>>)]

\* AggregatePart004 with overallSuccess taken from the number of created
\* tickets instead of the number of recorded errors
AggregatePart004_SuccessFromCreated(created, errors) ==
  [AggregateActions(created, errors) EXCEPT !.success = Len(created) > 0]

\* src/unnamed/part_004:479-498
AggregatePart004(created, errors) ==
  LET overallSuccess == Len(errors) = 0
      n == Len(created)
  IN  IF n > 0 /\ overallSuccess
        THEN [success |-> TRUE,
              message |-> Message("Successfully created", <<n>>, <<>>, <<>>)]
      ELSE IF n > 0 /\ ~overallSuccess
        THEN [success |-> FALSE,
              message |-> Message("Partially created", <<n>>, <<>>, errors)]
      ELSE IF n = 0 /\ ~overallSuccess /\ Len(tickets) > 0
        THEN [success |-> FALSE,
              message |-> Message("Failed to create any", <<>>, <<>>, errors)]
      ELSE IF n = 0 /\ overallSuccess /\ Len(tickets) = 0
        THEN [success |-> TRUE,
              message |-> Message("No tickets were provided", <<>>, <<>>, <<>>)]
      ELSE IF n = 0 /\ overallSuccess /\ Len(tickets) > 0
        THEN [success |-> FALSE,
              message |-> Message("No tickets were created", <<>>, <<>>, <<>>)]
      ELSE [success |-> overallSuccess,
            message |-> Message("", <<>>, <<>>, <<>>)]

\* src/unnamed/part_003:683-700
AggregatePart003(created, errors) ==
  LET n == Len(created)
      totalTicketsToCreate == countAllDraftTickets
      overallSuccess == Len(errors) = 0 /\ n = totalTicketsToCreate
  IN  IF totalTicketsToCreate = 0
        THEN [success |-> TRUE,
              message |-> Message("No tickets were provided", <<>>, <<>>, <<>>)]
      ELSE IF n > 0 /\ overallSuccess
        THEN [success |-> TRUE,
              message |-> Message("Successfully created all", <<n>>, <<>>, <<>>)]
      ELSE IF n > 0 /\ ~overallSuccess
        THEN [success |-> FALSE,
              message |-> Message("Partially created", <<n>>,
                                  <<totalTicketsToCreate>>, errors)]
      ELSE IF n = 0 /\ ~overallSuccess /\ totalTicketsToCreate > 0
        THEN [success |-> FALSE,
              message |-> Message("Failed to create any", <<>>,
                                  <<totalTicketsToCreate>>, errors)]
      ELSE [success |-> overallSuccess,
            message |-> Message("", <<>>, <<>>, <<>>)]

Aggregate(created, errors) ==
  LET r == CASE version = "actions"  -> AggregateActions(created, errors)
             [] version = "part_004" -> AggregatePart004(created, errors)
             [] version = "part_003" -> AggregatePart003(created, errors)
  IN  [success |-> r.success, message |-> r.message, createdTickets |-> created]

NoResult == [success |-> FALSE, message |-> Message("", <<>>, <<>>, <<>>),
             createdTickets |-> <<>>]

----------------------------------------------------------------------------
\* The state machine

Top == stack[Len(stack)]

\* the node whose request is being built or is in flight
Current == Top.list[Top.idx]

Frame(list, parentJiraKey) ==
  [list |-> list, idx |-> 1, parentJiraKey |-> parentJiraKey]

\* createdTicketsResult = [], errorMessages = [], nothing posted yet
Started ==
  /\ pc = "start"
  /\ i = 0
  /\ stack = <<>>
  /\ nextKey = MaxNodes + 1
  /\ keyOf = [n \in 1..size |-> NoKey]
  /\ status = [n \in 1..size |-> "pending"]
  /\ calls = <<>>
  /\ createdTicketsResult = <<>>
  /\ errorMessages = <<>>
  /\ result = NoResult

Init ==
  /\ version \in Versions
  /\ size \in 0..MaxNodes
  /\ parentOf \in {f \in [1..size -> 0..MaxNodes] : PreOrder(f, size)}
  /\ kind \in [1..size -> Kinds]
  /\ description = [n \in 1..size |-> <<"desc">>]
  /\ acceptanceCriteria = [n \in 1..size |-> <<>>]
  /\ Started
  /\ TransducerIdle

\* Entry with the texts of the draft nodes drawn freely
InitDraft ==
  /\ version \in Versions
  /\ size \in 0..MaxDraftNodes
  /\ parentOf \in {f \in [1..size -> 0..MaxDraftNodes] : PreOrder(f, size)}
  /\ kind \in [1..size -> Kinds]
  /\ description \in [1..size -> Descriptions]
  /\ acceptanceCriteria \in [1..size -> Criteria]
  /\ Started
  /\ TransducerIdle

\* await createTicketsRecursively(tickets)       (actions.ts, part_004)
CreateTicketsRecursively ==
  /\ version \in {"actions", "part_004"}
  /\ pc = "start"
  /\ stack' = <<Frame(tickets, NoKey)>>
  /\ pc' = "loop"
  /\ UNCHANGED <<draft, transducer, i, nextKey, keyOf, status, calls,
                 createdTicketsResult, errorMessages, result>>

\* ProcessBatch with a slice that stops one root short of the next batch
ProcessBatch_SkipsBoundary ==
  /\ version = "part_003"
  /\ pc = "start"
  /\ i < Len(tickets)
  /\ stack' = <<Frame(Slice(tickets, i, i + BATCH_SIZE - 1), NoKey)>>
  /\ i' = i + BATCH_SIZE
  /\ pc' = "loop"
  /\ UNCHANGED <<draft, transducer, nextKey, keyOf, status, calls,
                 createdTicketsResult, errorMessages, result>>

\* one iteration of the batch loop               (part_003)
ProcessBatch ==
  /\ version = "part_003"
  /\ pc = "start"
  /\ i < Len(tickets)
  /\ stack' = <<Frame(Slice(tickets, i, i + BATCH_SIZE), NoKey)>>
  /\ i' = i + BATCH_SIZE
  /\ pc' = "loop"
  /\ UNCHANGED <<draft, transducer, nextKey, keyOf, status, calls,
                 createdTicketsResult, errorMessages, result>>

\* SendRequest appending the acceptance criteria to ticketData.description
\* itself instead of to a local copy
SendRequest_WritesDescription ==
  /\ pc = "loop"
  /\ Top.idx <= Len(Top.list)
  /\ calls' = Append(calls, Payload(Current, Top.parentJiraKey))
  /\ status' = [status EXCEPT ![Current] = "inflight"]
  /\ description' = [description EXCEPT ![Current] = CombinedDescriptionText(Current)]
  /\ pc' = "await"
  /\ UNCHANGED <<version, size, parentOf, kind, acceptanceCriteria, transducer, i, stack,
                 nextKey, keyOf, createdTicketsResult, errorMessages, result>>

\* createSingleTicket up to the await of fetch
SendRequest ==
  /\ pc = "loop"
  /\ Top.idx <= Len(Top.list)
  /\ calls' = Append(calls, Payload(Current, Top.parentJiraKey))
  /\ status' = [status EXCEPT ![Current] = "inflight"]
  /\ pc' = "await"
  /\ UNCHANGED <<draft, transducer, i, stack, nextKey, keyOf,
                 createdTicketsResult, errorMessages, result>>

\* ResponseOk that never enters the children of the created node
ResponseOk_SkipsChildren ==
  /\ pc = "await"
  /\ nextKey' = nextKey + 1
  /\ keyOf' = [keyOf EXCEPT ![Current] = nextKey]
  /\ status' = [status EXCEPT ![Current] = "created"]
  /\ createdTicketsResult' =
       Append(createdTicketsResult,
              [key |-> nextKey, summary |-> Current, type |-> kind[Current]])
  /\ stack' = [stack EXCEPT ![Len(stack)].idx = @ + 1]
  /\ pc' = "loop"
  /\ UNCHANGED <<draft, transducer, i, calls, errorMessages, result>>

\* response.ok: the entry is pushed and the children, if any, are entered
ResponseOk ==
  /\ pc = "await"
  /\ LET n    == Current
         key  == nextKey
         rest == [stack EXCEPT ![Len(stack)].idx = @ + 1]
     IN  /\ nextKey' = nextKey + 1
         /\ keyOf' = [keyOf EXCEPT ![n] = key]
         /\ status' = [status EXCEPT ![n] = "created"]
         /\ createdTicketsResult' =
              Append(createdTicketsResult,
                     [key |-> key, summary |-> n, type |-> kind[n]])
         /\ stack' = IF Len(Children(n)) > 0
                     THEN Append(rest, Frame(Children(n), NewParentKey(n, key)))
                     ELSE rest
  /\ pc' = "loop"
  /\ UNCHANGED <<draft, transducer, i, calls, errorMessages, result>>

\* ResponseNotOk recursing into the children although the creation failed
ResponseNotOk_EntersChildren ==
  /\ pc = "await"
  /\ errorMessages' = Append(errorMessages, ErrorMessage(Current))
  /\ status' = [status EXCEPT ![Current] = "failed"]
  /\ LET rest == [stack EXCEPT ![Len(stack)].idx = @ + 1]
     IN  stack' = IF Len(Children(Current)) > 0
                  THEN Append(rest, Frame(Children(Current), NoKey))
                  ELSE rest
  /\ pc' = "loop"
  /\ UNCHANGED <<draft, transducer, i, nextKey, keyOf, calls, createdTicketsResult, result>>

\* !response.ok: the message is pushed, the children are not entered
ResponseNotOk ==
  /\ pc = "await"
  /\ errorMessages' = Append(errorMessages, ErrorMessage(Current))
  /\ status' = [status EXCEPT ![Current] = "failed"]
  /\ stack' = [stack EXCEPT ![Len(stack)].idx = @ + 1]
  /\ pc' = "loop"
  /\ UNCHANGED <<draft, transducer, i, nextKey, keyOf, calls, createdTicketsResult, result>>

\* the fetch promise rejects: nothing catches it, the action rejects
FetchRejects ==
  /\ pc = "await"
  /\ status' = [status EXCEPT ![Current] = "raised"]
  /\ stack' = <<>>
  /\ pc' = "thrown"
  /\ UNCHANGED <<draft, transducer, i, nextKey, keyOf, calls,
                 createdTicketsResult, errorMessages, result>>

\* the for-of loop of an activation is exhausted
ReturnFromList ==
  /\ pc = "loop"
  /\ Top.idx > Len(Top.list)
  /\ stack' = SubSeq(stack, 1, Len(stack) - 1)
  /\ pc' = IF Len(stack) > 1 THEN "loop"
           ELSE IF version = "part_003" THEN "start" ELSE "aggregate"
  /\ UNCHANGED <<draft, transducer, i, nextKey, keyOf, status, calls,
                 createdTicketsResult, errorMessages, result>>

\* result aggregation and return
Return ==
  /\ \/ pc = "aggregate"
     \/ pc = "start" /\ version = "part_003" /\ i >= Len(tickets)
  /\ result' = Aggregate(createdTicketsResult, errorMessages)
  /\ pc' = "done"
  /\ UNCHANGED <<draft, transducer, i, stack, nextKey, keyOf, status, calls,
                 createdTicketsResult, errorMessages>>

\* Largest number of draft nodes of a root list longer than one batch.
MaxRoots == 11

\* Entry with a root list around the size of a batch: BATCH_SIZE - 1 to
\* MaxRoots Story nodes, all of them roots or the last one a Sub-task of the
\* one before it
InitBatch ==
  /\ version \in Versions
  /\ size \in (BATCH_SIZE - 1)..MaxRoots
  /\ parentOf \in { [n \in 1..size |-> 0],
                    [n \in 1..size |-> IF n = size THEN size - 1 ELSE 0] }
  /\ kind = [n \in 1..size |-> IF parentOf[n] = 0 THEN "Story" ELSE "Sub-task"]
  /\ description = [n \in 1..size |-> <<"desc">>]
  /\ acceptanceCriteria = [n \in 1..size |-> <<>>]
  /\ pc = "start"
  /\ i = 0
  /\ stack = <<>>
  /\ nextKey = MaxRoots + 1
  /\ keyOf = [n \in 1..size |-> NoKey]
  /\ status = [n \in 1..size |-> "pending"]
  /\ calls = <<>>
  /\ createdTicketsResult = <<>>
  /\ errorMessages = <<>>
  /\ result = NoResult
  /\ TransducerIdle

Next ==
  \/ CreateTicketsRecursively
  \/ ProcessBatch
  \/ SendRequest
  \/ ResponseOk
  \/ ResponseNotOk
  \/ FetchRejects
  \/ ReturnFromList
  \/ Return

Spec == Init /\ [][Next]_vars

\* Every posted request is answered or rejected in the end, and the event
\* loop runs every continuation of the async function that is ready
Fairness == WF_vars(Next)

SpecFair == Init /\ [][Next]_vars /\ Fairness

SpecDraft == InitDraft /\ [][Next]_vars

SpecBatch == InitBatch /\ [][Next]_vars

----------------------------------------------------------------------------
\* Strings: a string is the sequence of its characters

\* the characters JavaScript's trim() and the regex class \s take off, as far
\* as they occur here
WhiteSpace == {" ", "\n", "\t"}

\* the regex class \d
Digit == {"0", "1", "2", "3", "4", "5", "6", "7", "8", "9"}

RECURSIVE TrimStart(_)
TrimStart(s) ==
  IF s = <<>> THEN <<>>
  ELSE IF Head(s) \in WhiteSpace THEN TrimStart(Tail(s))
  ELSE s

RECURSIVE TrimEnd(_)
TrimEnd(s) ==
  IF s = <<>> THEN <<>>
  ELSE IF s[Len(s)] \in WhiteSpace THEN TrimEnd(SubSeq(s, 1, Len(s) - 1))
  ELSE s

\* String.prototype.trim
Trim(s) == TrimEnd(TrimStart(s))

\* String.prototype.startsWith
StartsWith(s, prefix) ==
  Len(s) >= Len(prefix) /\ SubSeq(s, 1, Len(prefix)) = prefix

\* String.prototype.endsWith
EndsWith(s, suffix) ==
  Len(s) >= Len(suffix) /\ SubSeq(s, Len(s) - Len(suffix) + 1, Len(s)) = suffix

\* String.prototype.substring(from), 0-based
Substring(s, from) == SubSeq(s, from + 1, Len(s))

RECURSIVE RunLength(_, _, _)
\* length of the longest run of characters of class C starting at s[from]
RunLength(s, from, C) ==
  IF from > Len(s) \/ s[from] \notin C THEN 0
  ELSE 1 + RunLength(s, from + 1, C)

OrderedPrefixLen_NoSpaceNeeded(s) ==
  LET d == RunLength(s, 1, Digit)
      w == RunLength(s, d + 2, WhiteSpace)
  IN  IF d >= 1 /\ Len(s) >= d + 1 /\ s[d + 1] = "."
      THEN d + 1 + w ELSE 0

\* length of the match of /^\d+\.\s+/ in s, 0 if there is none
OrderedPrefixLen(s) ==
  LET d == RunLength(s, 1, Digit)
      w == RunLength(s, d + 2, WhiteSpace)
  IN  IF d >= 1 /\ Len(s) >= d + 1 /\ s[d + 1] = "." /\ w >= 1
      THEN d + 1 + w ELSE 0

\* length of the match of /^[-*]\s+/ in s, 0 if there is none
BulletPrefixLen(s) ==
  LET w == RunLength(s, 2, WhiteSpace)
  IN  IF Len(s) >= 1 /\ s[1] \in {"-", "*"} /\ w >= 1 THEN 1 + w ELSE 0

RECURSIVE Split(_)
\* String.prototype.split('\n')
Split(s) ==
  LET n == RunLength(s, 1, {c \in Range(s) : c # "\n"})
  IN  IF n = Len(s) THEN <<s>>
      ELSE <<SubSeq(s, 1, n)>> \o Split(SubSeq(s, n + 2, Len(s)))

RECURSIVE Join(_)
\* Array.prototype.join('\n')
Join(ls) ==
  IF ls = <<>> THEN <<>>
  ELSE IF Len(ls) = 1 THEN ls[1]
  ELSE ls[1] \o <<"\n">> \o Join(Tail(ls))

----------------------------------------------------------------------------
\* Rich-document nodes

TextNode(t) == [type |-> "text", text |-> t]

Heading(level, t) ==
  [type |-> "heading", attrs |-> [level |-> level], content |-> <<TextNode(t)>>]

Paragraph(t) == [type |-> "paragraph", content |-> <<TextNode(t)>>]

ListItem(t) == [type |-> "listItem", content |-> <<Paragraph(t)>>]

Doc(content) == [type |-> "doc", version |-> 1, content |-> content]

----------------------------------------------------------------------------
\* markdownToAdf, revision of src/src/app/actions.ts:590-654 ("inList")

ListItemEndings_OnlyNonBlank(trimmedLine, inList) ==
  IF /\ trimmedLine # <<>>
     /\ OrderedPrefixLen(trimmedLine) = 0
     /\ BulletPrefixLen(trimmedLine) = 0
     /\ inList # "none"
  THEN "none" ELSE inList

\* "Check for list item endings": the value of inList after the first
\* statement of the loop body
ListItemEndings(trimmedLine, inList) ==
  IF /\ OrderedPrefixLen(trimmedLine) = 0
     /\ BulletPrefixLen(trimmedLine) = 0
     /\ inList # "none"
  THEN "none" ELSE inList

RECURSIVE EncodeInList(_, _, _)
\* the for-of loop over the lines; inList is "orderedList", "bulletList" or
\* "none" (null)
EncodeInList(lines, adfContent, inList) ==
  IF lines = <<>> THEN adfContent
  ELSE
    LET trimmedLine == Trim(Head(lines))
        open == ListItemEndings(trimmedLine, inList)
        last == Len(adfContent)
    IN  IF StartsWith(trimmedLine, <<"#", "#", " ">>)
          THEN EncodeInList(Tail(lines),
                 Append(adfContent, Heading(2, Trim(Substring(trimmedLine, 3)))), open)
        ELSE IF StartsWith(trimmedLine, <<"#", " ">>)
          THEN EncodeInList(Tail(lines),
                 Append(adfContent, Heading(1, Trim(Substring(trimmedLine, 2)))), open)
        ELSE IF OrderedPrefixLen(trimmedLine) > 0
          THEN LET listItem ==
                     ListItem(Trim(Substring(trimmedLine, OrderedPrefixLen(trimmedLine))))
               IN  IF open = "orderedList"
                   THEN EncodeInList(Tail(lines),
                          [adfContent EXCEPT ![last].content = Append(@, listItem)],
                          open)
                   ELSE EncodeInList(Tail(lines),
                          Append(adfContent,
                                 [type |-> "orderedList", content |-> <<listItem>>]),
                          "orderedList")
        ELSE IF BulletPrefixLen(trimmedLine) > 0
          THEN LET listItem ==
                     ListItem(Trim(Substring(trimmedLine, BulletPrefixLen(trimmedLine))))
               IN  IF open = "bulletList"
                   THEN EncodeInList(Tail(lines),
                          [adfContent EXCEPT ![last].content = Append(@, listItem)],
                          open)
                   ELSE EncodeInList(Tail(lines),
                          Append(adfContent,
                                 [type |-> "bulletList", content |-> <<listItem>>]),
                          "bulletList")
        ELSE IF trimmedLine # <<>>
          THEN EncodeInList(Tail(lines), Append(adfContent, Paragraph(trimmedLine)), open)
        ELSE EncodeInList(Tail(lines), adfContent, open)

markdownToAdfInList_AlwaysDoc(md) ==
  Doc(EncodeInList(Split(md), <<>>, "none"))

markdownToAdfInList(md) ==
  IF md = <<>> \/ Trim(md) = <<>> THEN Null
  ELSE LET adfContent == EncodeInList(Split(md), <<>>, "none")
       IN  IF Len(adfContent) = 0 THEN Null ELSE Doc(adfContent)

----------------------------------------------------------------------------
\* markdownToAdf, revision of src/unnamed/part_003:73-167 ("flushList")

FlushList_DropsItems(st) ==
  [ adfContent |-> st.adfContent,
    inList |-> FALSE,
    listType |-> "none",
    currentListItems |-> <<>> ]

\* flushList() on the loop state
FlushList(st) ==
  [ adfContent |->
      IF st.inList /\ st.listType # "none" /\ Len(st.currentListItems) > 0
      THEN Append(st.adfContent,
                  [type |-> st.listType, content |-> st.currentListItems])
      ELSE st.adfContent,
    inList |-> FALSE,
    listType |-> "none",
    currentListItems |-> <<>> ]

PushItem_IgnoresKind(st, k, t) ==
  LET s1 == IF ~st.inList
            THEN [FlushList(st) EXCEPT !.inList = TRUE, !.listType = k]
            ELSE st
  IN  [s1 EXCEPT !.currentListItems = Append(@, ListItem(t))]

PushItem_AlwaysFlush(st, k, t) ==
  [FlushList(st) EXCEPT !.inList = TRUE, !.listType = k,
                        !.currentListItems = <<ListItem(t)>>]

\* a list line of kind k with item text t
PushItem(st, k, t) ==
  LET s1 == IF ~st.inList \/ st.listType # k
            THEN [FlushList(st) EXCEPT !.inList = TRUE, !.listType = k]
            ELSE st
  IN  [s1 EXCEPT !.currentListItems = Append(@, ListItem(t))]

CloseList_OnBlankToo(st, trimmedLine) ==
  IF st.inList THEN FlushList(st) ELSE st

\* "If not a list item and we were in a list, flush it"
CloseList(st, trimmedLine) ==
  IF trimmedLine # <<>> /\ st.inList THEN FlushList(st) ELSE st

RECURSIVE EncodeFlushList(_, _)
\* the for-of loop over the lines and the final flushList()
EncodeFlushList(lines, st) ==
  IF lines = <<>> THEN FlushList(st).adfContent
  ELSE
    LET trimmedLine == Trim(Head(lines))
    IN  IF StartsWith(trimmedLine, <<"#", "#", " ">>)
          THEN EncodeFlushList(Tail(lines),
                 [FlushList(st) EXCEPT !.adfContent =
                    Append(@, Heading(2, Trim(Substring(trimmedLine, 3))))])
        ELSE IF StartsWith(trimmedLine, <<"#", " ">>)
          THEN EncodeFlushList(Tail(lines),
                 [FlushList(st) EXCEPT !.adfContent =
                    Append(@, Heading(1, Trim(Substring(trimmedLine, 2))))])
        ELSE IF OrderedPrefixLen(trimmedLine) > 0
          THEN EncodeFlushList(Tail(lines),
                 PushItem(st, "orderedList",
                          Trim(Substring(trimmedLine, OrderedPrefixLen(trimmedLine)))))
        ELSE IF BulletPrefixLen(trimmedLine) > 0
          THEN EncodeFlushList(Tail(lines),
                 PushItem(st, "bulletList",
                          Trim(Substring(trimmedLine, BulletPrefixLen(trimmedLine)))))
        ELSE
          LET s1 == CloseList(st, trimmedLine)
          IN  IF trimmedLine # <<>>
              THEN EncodeFlushList(Tail(lines),
                     [s1 EXCEPT !.adfContent = Append(@, Paragraph(trimmedLine))])
              ELSE EncodeFlushList(Tail(lines), s1)

markdownToAdfFlushList(md) ==
  IF md = <<>> \/ Trim(md) = <<>> THEN Null
  ELSE LET adfContent ==
             EncodeFlushList(Split(md),
               [adfContent |-> <<>>, inList |-> FALSE, listType |-> "none",
                currentListItems |-> <<>>])
       IN  IF Len(adfContent) = 0 THEN Null ELSE Doc(adfContent)

markdownToAdf(md) ==
  IF revision = "inList" THEN markdownToAdfInList(md) ELSE markdownToAdfFlushList(md)

----------------------------------------------------------------------------
\* extractTextFromADF (src/src/app/actions.ts:657-681, the same text at
\* actions.ts:61-87, part_003:170-194 and part_004:60-84)
\*
\* A JavaScript object is a record; it has the field content exactly when
\* its content is an array ("node.content && Array.isArray(node.content)"),
\* and a node with no type has a type that no test of the code names.  Null
\* stands for null and undefined, StringValue and NumberValue for values
\* that are not objects.

\* a non-empty bare string handed to the decoder in place of a document
StringValue(s) == [type |-> "string", value |-> s]

\* a non-zero number handed to the decoder in place of a document
NumberValue(n) == [type |-> "number", value |-> n]

\* the TypeError of reading a property of null; no string of characters
TypeError == <<"TypeError">>

AfterParagraph_NoTrimTest(node, textContent) ==
  IF /\ node.type = "paragraph"
     /\ Len(textContent) > 0
     /\ ~EndsWith(textContent, <<"\n">>)
  THEN textContent \o <<"\n">> ELSE textContent

\* the third statement of the loop body of traverseNodes: "Add a newline
\* after paragraphs, but not if it's already double-spaced or empty"
AfterParagraph(node, textContent) ==
  IF /\ node.type = "paragraph"
     /\ Len(textContent) > 0
     /\ ~EndsWith(textContent, <<"\n", "\n">>)
     /\ Len(Trim(textContent)) > 0
     /\ ~EndsWith(textContent, <<"\n">>)
  THEN textContent \o <<"\n">> ELSE textContent

RECURSIVE TraverseNodes(_, _)
\* traverseNodes(nodes) run on the accumulated textContent; node.type of a
\* null node is a TypeError that nothing catches
TraverseNodes(nodes, textContent) ==
  IF textContent = TypeError THEN TypeError
  ELSE IF nodes = <<>> THEN textContent
  ELSE
    LET node == Head(nodes)
    IN  IF node = Null THEN TypeError
        ELSE
          LET t1 == IF /\ node.type = "text"
                       /\ "text" \in DOMAIN node
                       /\ node.text # <<>>
                    THEN textContent \o node.text ELSE textContent
              t2 == IF "content" \in DOMAIN node
                    THEN TraverseNodes(node.content, t1) ELSE t1
          IN  IF t2 = TypeError THEN TypeError
              ELSE TraverseNodes(Tail(nodes), AfterParagraph(node, t2))

RECURSIVE CollapseBeforeNewline(_)
\* String.prototype.replace(/\s+\n/g, '\n'): at a white-space character the
\* greedy \s+ runs to the last newline of the run that is not its first
\* character, and the whole match becomes one newline
CollapseBeforeNewline(s) ==
  IF s = <<>> THEN <<>>
  ELSE
    LET run == RunLength(s, 1, WhiteSpace)
        nl  == {j \in 2..run : s[j] = "\n"}
    IN  IF nl # {}
        THEN LET j == CHOOSE x \in nl : \A y \in nl : y <= x
             IN  <<"\n">> \o CollapseBeforeNewline(SubSeq(s, j + 1, Len(s)))
        ELSE <<Head(s)>> \o CollapseBeforeNewline(Tail(s))

Normalise_TrimOnly(textContent) == Trim(textContent)

\* textContent.trim().replace(/\s+\n/g, '\n')
Normalise(textContent) == CollapseBeforeNewline(Trim(textContent))

extractTextFromADF_NoTrim(doc) ==
  IF doc = Null THEN <<>>
  ELSE IF doc.type = "string" THEN doc.value
  ELSE IF doc.type = "number" THEN <<>>
  ELSE IF "content" \notin DOMAIN doc THEN <<>>
  ELSE TraverseNodes(doc.content, <<>>)

extractTextFromADF_TrimsString(doc) ==
  IF doc = Null THEN <<>>
  ELSE IF doc.type = "string" THEN Normalise(doc.value)
  ELSE IF doc.type = "number" THEN <<>>
  ELSE IF "content" \notin DOMAIN doc THEN <<>>
  ELSE LET textContent == TraverseNodes(doc.content, <<>>)
       IN  IF textContent = TypeError THEN TypeError
           ELSE Normalise(textContent)

extractTextFromADF(doc) ==
  IF doc = Null THEN <<>>
  ELSE IF doc.type = "string" THEN doc.value
  ELSE IF doc.type = "number" THEN <<>>
  ELSE IF "content" \notin DOMAIN doc THEN <<>>
  ELSE LET textContent == TraverseNodes(doc.content, <<>>)
       IN  IF textContent = TypeError THEN TypeError
           ELSE Normalise(textContent)

----------------------------------------------------------------------------
\* The transducer as a state machine: a markdown text is encoded, and the
\* document is decoded again

\* Largest number of lines of the markdown text.
MaxLines == 3

\* The lines the markdown text is made of
Lines ==
  { <<>>,
    <<" ">>,
    <<"a">>,
    <<" ", "b", " ", "c">>,
    <<"#", " ", "h">>,
    <<"#", "#", " ", "g">>,
    <<"#", "#", "#", " ", "k">>,
    <<"1", ".", " ", "p">>,
    <<"2", "2", ".", " ", " ", "q", " ">>,
    <<"1", ".">>,
    <<"-", " ", "x">>,
    <<"*", " ", "y">>,
    <<"-">>,
    <<" ", "-", " ", "z">> }

Markdowns == {Join(ls) : ls \in UNION {[1..n -> Lines] : n \in 1..MaxLines}}

MdRevisions == {"inList", "flushList"}

orchestrator == <<version, size, parentOf, kind, description, acceptanceCriteria,
                  pc, i, stack, nextKey, keyOf, status, calls,
                  createdTicketsResult, errorMessages, result>>

\* createJiraTicketsAction is not running
OrchestratorIdle ==
  /\ version = "actions"
  /\ size = 0
  /\ parentOf = <<>>
  /\ kind = <<>>
  /\ description = <<>>
  /\ acceptanceCriteria = <<>>
  /\ pc = "idle"
  /\ i = 0
  /\ stack = <<>>
  /\ nextKey = MaxNodes + 1
  /\ keyOf = <<>>
  /\ status = <<>>
  /\ calls = <<>>
  /\ createdTicketsResult = <<>>
  /\ errorMessages = <<>>
  /\ result = NoResult

InitMarkdown ==
  /\ OrchestratorIdle
  /\ revision \in MdRevisions
  /\ markdown \in Markdowns
  /\ adf = Null
  /\ text = <<>>
  /\ tpc = "input"

\* const descriptionADF = markdownToAdf(descriptionMarkdown)
Encode ==
  /\ tpc = "input"
  /\ adf' = markdownToAdf(markdown)
  /\ tpc' = "encoded"
  /\ UNCHANGED <<orchestrator, revision, markdown, text>>

\* extractTextFromADF(issue.fields.description)
Decode ==
  /\ tpc = "encoded"
  /\ LET returned == extractTextFromADF(adf)
     IN  IF returned = TypeError
         THEN tpc' = "thrown" /\ text' = text
         ELSE tpc' = "decoded" /\ text' = returned
  /\ UNCHANGED <<orchestrator, revision, markdown, adf>>

NextMarkdown ==
  \/ Encode
  \/ Decode

SpecMarkdown == InitMarkdown /\ [][NextMarkdown]_vars

----------------------------------------------------------------------------
\* The decoder on the values the tracker may hand it
\* (issue.fields.description, actions.ts:186-187 and 827-828)

\* Largest number of nodes in the content array of the document.
MaxBlocks == 3

\* The nodes the content array of the document is made of
Blocks ==
  { Paragraph(<<"a">>),
    Paragraph(<<" ">>),
    Paragraph(<<"\n">>),
    [type |-> "paragraph", content |-> <<TextNode(<<"b">>), TextNode(<<" ">>)>>],
    [type |-> "paragraph", content |-> <<TextNode(<<"\n">>), TextNode(<<"\n">>)>>],
    [type |-> "paragraph", content |-> <<>>],
    [type |-> "paragraph"],
    [type |-> "paragraph",
     content |-> <<[type |-> "hardBreak"], [type |-> "text"], TextNode(<<>>)>>],
    [type |-> "mention"],
    [type |-> "bulletList", content |-> <<ListItem(<<"c">>)>>],
    TextNode(<<"d">>),
    [type |-> "paragraph", content |-> <<Null>>],
    Null }

\* The bare strings the decoder is handed
BareStrings ==
  { <<"a">>,
    <<" ", "a", " ", "\n", "\n", "b", "\n">>,
    <<" ">> }

\* issue.fields.description: absent, a string, a number, an object without a
\* content array, or an object with one
DecoderInputs ==
  {Null, NumberValue(7), [type |-> "doc", version |-> 1]}
    \cup {StringValue(s) : s \in BareStrings}
    \cup {Doc(c) : c \in UNION {[1..n -> Blocks] : n \in 0..MaxBlocks}}

InitDecoder ==
  /\ OrchestratorIdle
  /\ revision = "inList"
  /\ markdown = <<>>
  /\ adf \in DecoderInputs
  /\ text = <<>>
  /\ tpc = "encoded"

NextDecoder == Decode

SpecDecoder == InitDecoder /\ [][NextDecoder]_vars

----------------------------------------------------------------------------
\* textToAdf, the encoder of createSingleTicket's description, as the
\* revisions of createJiraTicketsAction have it: actions.ts:49-59 and
\* part_004:48-58 ("actions", "part_004"), part_003:55-70 ("part_003")

\* actions.ts:49-59, part_004:48-58: one paragraph for every line
textToAdfEveryLine(t) ==
  IF t = <<>> THEN Null
  ELSE LET paragraphs == Split(t)
       IN  Doc([k \in 1..Len(paragraphs) |-> Paragraph(paragraphs[k])])

\* the test of the filter: paragraphText.trim() === ""
IsEmptyParagraph(paragraphText) == Trim(paragraphText) = <<>>

IsKeptParagraph(paragraphText) == ~IsEmptyParagraph(paragraphText)

\* part_003:55-70: one paragraph for every non-blank line, trimmed
textToAdfNonBlankLines(t) ==
  IF t = <<>> \/ Trim(t) = <<>> THEN Null
  ELSE LET paragraphs == SelectSeq(Split(t), IsKeptParagraph)
       IN  Doc([k \in 1..Len(paragraphs) |-> Paragraph(Trim(paragraphs[k]))])

textToAdf(t) ==
  IF version = "part_003" THEN textToAdfNonBlankLines(t) ELSE textToAdfEveryLine(t)

\* the argument of textToAdf for the description d of a ticket
DescriptionArgument(d) == IF version = "part_003" THEN Trim(d) ELSE d

InitDescription ==
  /\ version \in Versions
  /\ size = 0
  /\ parentOf = <<>>
  /\ kind = <<>>
  /\ description = <<>>
  /\ acceptanceCriteria = <<>>
  /\ pc = "idle"
  /\ i = 0
  /\ stack = <<>>
  /\ nextKey = MaxNodes + 1
  /\ keyOf = <<>>
  /\ status = <<>>
  /\ calls = <<>>
  /\ createdTicketsResult = <<>>
  /\ errorMessages = <<>>
  /\ result = NoResult
  /\ revision = "inList"
  /\ markdown \in Markdowns
  /\ adf = Null
  /\ text = <<>>
  /\ tpc = "description"

\* const descriptionADF = textToAdf(ticketData.description)
EncodeDescription ==
  /\ tpc = "description"
  /\ adf' = textToAdf(DescriptionArgument(markdown))
  /\ tpc' = "encoded"
  /\ UNCHANGED <<orchestrator, revision, markdown, text>>

NextDescription ==
  \/ EncodeDescription
  \/ Decode

SpecDescription == InitDescription /\ [][NextDescription]_vars

----------------------------------------------------------------------------
\* Vocabulary of the properties

Attempted(n) == \E k \in 1..Len(calls) : calls[k].node = n

Descendants(n) == {m \in Nodes : n \in Ancestors(parentOf, m)}

LaterSiblings(n) == {s \in Nodes : parentOf[s] = parentOf[n] /\ s > n}

RECURSIVE RootOf(_)
RootOf(n) == IF parentOf[n] = 0 THEN n ELSE RootOf(parentOf[n])

RECURSIVE NearestEpic(_)
\* nearest proper ancestor of kind Epic, 0 if there is none
NearestEpic(n) ==
  IF parentOf[n] = 0 THEN 0
  ELSE IF kind[parentOf[n]] = "Epic" THEN parentOf[n]
  ELSE NearestEpic(parentOf[n])

Ended == pc \in {"done", "thrown"}

Returned == pc = "done"

CreatedNodes == {createdTicketsResult[k].summary : k \in 1..Len(createdTicketsResult)}

ErrorNodes == {errorMessages[k].node : k \in 1..Len(errorMessages)}

\* the draft Epic -> [Story -> [Sub-task]]
EpicStorySubtask ==
  /\ size = 3
  /\ parentOf = <<0, 1, 2>>
  /\ kind = <<"Epic", "Story", "Sub-task">>

----------------------------------------------------------------------------
\* C1: for the draft Epic -> [Story -> [Sub-task]] with every request
\* answered by a created issue, exactly three requests are posted, in the
\* order epic, story, sub-task; the story's request carries the epic's key as
\* epic context and the sub-task's request carries the story's key as parent.
C1_EpicStorySubtaskCalls ==
  (EpicStorySubtask /\ Returned /\ \A n \in Nodes : status[n] = "created") =>
      /\ Len(calls) = 3
      /\ calls[1].node = 1 /\ calls[2].node = 2 /\ calls[3].node = 3
      /\ calls[1].parent = NoKey /\ calls[1].epic = NoKey
      /\ calls[2].epic = keyOf[1]
      /\ calls[3].parent = keyOf[2]

\* C2: when the creation of a node fails, no descendant of it is ever posted,
\* and every later sibling of it and every later root is still attempted by
\* the time the action has ended.
C2_FailurePrunesSubtreeOnly ==
  \A n \in Nodes :
    status[n] \in {"failed", "raised"} =>
      /\ \A d \in Descendants(n) : ~Attempted(d)
      /\ Ended => /\ \A s \in LaterSiblings(n) : Attempted(s)
                  /\ \A r \in Nodes :
                       (parentOf[r] = 0 /\ r > RootOf(n)) => Attempted(r)

\* C3: a request for a non-root node is posted only after the request for its
\* parent has completed with a created issue.
C3_ParentCreatedBeforeChild ==
  \A n \in Nodes :
    (Attempted(n) /\ parentOf[n] # 0) =>
      /\ status[parentOf[n]] = "created"
      /\ keyOf[parentOf[n]] # NoKey

C3_Witness ==
  \E n \in Nodes : parentOf[n] # 0 /\ status[n] = "inflight"

\* C4: if the creation of a Story with a Sub-task beneath it fails, then once
\* the action has ended the Sub-task was never attempted, a result was
\* returned with success = false, exactly one failure message is recorded for
\* the branch (the Story's), and createdTickets has no entry of the branch.
C4_FailedStoryBranch ==
  \A s \in Nodes :
    ( /\ Ended
      /\ kind[s] = "Story"
      /\ status[s] \in {"failed", "raised"}
      /\ \E t \in Descendants(s) : kind[t] = "Sub-task" ) =>
        LET branch == {s} \cup Descendants(s)
        IN  /\ \A t \in Descendants(s) : ~Attempted(t)
            /\ Returned
            /\ result.success = FALSE
            /\ Cardinality({k \in 1..Len(errorMessages) :
                              errorMessages[k].node \in branch}) = 1
            /\ s \in ErrorNodes
            /\ CreatedNodes \cap branch = {}
            /\ result.createdTickets = createdTicketsResult

\* C5: with an empty root list no request is posted and the action returns
\* success = true, createdTickets = [] and the "nothing to create" message.
C5_EmptyRootList ==
  (size = 0 /\ Ended) =>
      /\ Returned
      /\ calls = <<>>
      /\ result.success = TRUE
      /\ result.createdTickets = <<>>
      /\ result.message.template = "No tickets were provided"

C5_Witness == size = 0 /\ Returned

\* C6: the returned success flag is true if and only if no failed request
\* was recorded during the traversal.
C6_SuccessIffNoFailures ==
  Returned =>
      /\ result.success <=> (Len(errorMessages) = 0)
      /\ Len(errorMessages) = Cardinality({n \in Nodes : status[n] = "failed"})

C6_Witness ==
  /\ Returned
  /\ result.success = FALSE
  /\ Len(errorMessages) > 0
  /\ Len(createdTicketsResult) > 0

\* C7: when some nodes are created and at least one creation fails, a result
\* is returned with success = false, createdTickets holds exactly the created
\* nodes, and the message carries the number of created items and every
\* recorded error message.
C7_PartialResult ==
  ( /\ Ended
    /\ \E n \in Nodes : status[n] = "created"
    /\ \E n \in Nodes : status[n] \in {"failed", "raised"} ) =>
      /\ Returned
      /\ result.success = FALSE
      /\ result.createdTickets = createdTicketsResult
      /\ CreatedNodes = {n \in Nodes : status[n] = "created"}
      /\ Len(createdTicketsResult) = Cardinality(CreatedNodes)
      /\ result.message.count = <<Len(createdTicketsResult)>>
      /\ result.message.errors = errorMessages
      /\ ErrorNodes = {n \in Nodes : status[n] \in {"failed", "raised"}}

\* C8: a Sub-task with no resolvable parent key is recorded as a failure and
\* no request is ever posted for it: every request posted for a Sub-task
\* carries a parent key.
C8_SubtaskNeedsParent ==
  \A k \in 1..Len(calls) :
    calls[k].issuetype = "Sub-task" => calls[k].parent # NoKey

\* C9: whatever way requests fail, the action still returns an aggregate
\* result: the failure is never thrown out of the action.
C9_NeverThrows ==
  (\E n \in Nodes : status[n] \in {"failed", "raised"}) => pc # "thrown"

\* C10: every non-Epic node beneath an Epic is posted with an epic context
\* equal to the key of its nearest enclosing Epic, and an Epic is posted with
\* no epic context.
C10_EpicContext ==
  \A k \in 1..Len(calls) :
    LET n == calls[k].node
    IN  /\ kind[n] = "Epic" => calls[k].epic = NoKey
        /\ (kind[n] # "Epic" /\ NearestEpic(n) # 0) =>
              calls[k].epic = keyOf[NearestEpic(n)]

C12_DraftReadOnly ==
  [][UNCHANGED <<size, parentOf, kind, description, acceptanceCriteria>>]_vars

C12_Witness ==
  /\ Returned
  /\ version = "part_003"
  /\ \E n \in Nodes : status[n] = "created" /\ acceptanceCriteria[n] # <<>>
  /\ \E n \in Nodes : status[n] = "failed"

----------------------------------------------------------------------------
\* Properties of the markdown encoder and of the decoder (SpecMarkdown)
\*
\* The operators below take the lines of the markdown text (lines) and the
\* leaves of the document (leaves); every property binds them once to
\* InputLines and Leaves.

\* the encoder has just run on the markdown text
Encoded == tpc = "encoded"

\* the decoder has just run on the encoder's document
Decoded == tpc = "decoded"

\* the lines of the markdown text
InputLines == Split(markdown)

IsBlank(line) == Trim(line) = <<>>

NonBlank(line) == ~IsBlank(line)

\* the number of non-blank lines among the first k lines
NonBlankUpTo(lines, k) == Cardinality({j \in 1..k : ~IsBlank(lines[j])})

\* "orderedList" or "bulletList" for a list line, "none" for any other line
ListKind(line) ==
  IF OrderedPrefixLen(Trim(line)) > 0 THEN "orderedList"
  ELSE IF BulletPrefixLen(Trim(line)) > 0 THEN "bulletList"
  ELSE "none"

\* the text of a list line after its marker
ItemText(line) ==
  LET t == Trim(line)
  IN  IF OrderedPrefixLen(t) > 0 THEN Trim(Substring(t, OrderedPrefixLen(t)))
      ELSE Trim(Substring(t, BulletPrefixLen(t)))

\* the text of a non-blank line without its heading or list marker
LineText(line) ==
  LET t == Trim(line)
  IN  IF StartsWith(t, <<"#", "#", " ">>) THEN Trim(Substring(t, 3))
      ELSE IF StartsWith(t, <<"#", " ">>) THEN Trim(Substring(t, 2))
      ELSE IF ListKind(line) # "none" THEN ItemText(line)
      ELSE t

RECURSIVE BlockLeaves(_, _)
\* the headings, paragraphs and list items of the blocks j.. in document
\* order, each with its block, its position in the list and its text
BlockLeaves(content, j) ==
  IF j > Len(content) THEN <<>>
  ELSE
    LET b == content[j]
    IN  (IF b.type \in {"orderedList", "bulletList"}
         THEN [m \in 1..Len(b.content) |->
                 [block |-> j, item |-> m, type |-> b.type, level |-> 0,
                  text |-> b.content[m].content[1].content[1].text]]
         ELSE <<[block |-> j, item |-> 0, type |-> b.type,
                 level |-> IF b.type = "heading" THEN b.attrs.level ELSE 0,
                 text |-> b.content[1].text]>>)
        \o BlockLeaves(content, j + 1)

Leaves == IF adf = Null THEN <<>> ELSE BlockLeaves(adf.content, 1)

\* the leaf that line k is encoded into
LeafOf(lines, leaves, k) == leaves[NonBlankUpTo(lines, k)]

\* line k has a leaf
HasLeaf(lines, leaves, k) == NonBlankUpTo(lines, k) <= Len(leaves)

\* C13: for every input text that is empty or only white space (only blank
\* lines included), the encoder returns null, never a document with an empty
\* block list.
C13_BlankGivesNull ==
  Encoded =>
    LET lines == InputLines
    IN  /\ (\A k \in 1..Len(lines) : IsBlank(lines[k])) => adf = Null
        /\ adf # Null => Len(adf.content) > 0

C13_Witness ==
  /\ Encoded
  /\ Len(InputLines) > 1
  /\ \A k \in 1..Len(InputLines) : IsBlank(InputLines[k])
  /\ \E k \in 1..Len(InputLines) : InputLines[k] # <<>>
  /\ adf = Null

\* the lines a..b are list lines of kind K
Run(lines, a, b, K) ==
  /\ a <= b
  /\ \A k \in a..b : ListKind(lines[k]) = K

\* the run a..b of kind K is bounded by the ends of the text or by non-blank
\* lines of another class
Bounded(lines, a, b, K) ==
  /\ a = 1 \/ (~IsBlank(lines[a - 1]) /\ ListKind(lines[a - 1]) # K)
  /\ b = Len(lines) \/ (~IsBlank(lines[b + 1]) /\ ListKind(lines[b + 1]) # K)

C15_KindSwitchSplits ==
  Encoded =>
    LET lines == InputLines
        leaves == Leaves
    IN  /\ \A k \in 1..(Len(lines) - 1) :
             LET K1 == ListKind(lines[k])
                 K2 == ListKind(lines[k + 1])
             IN  (K1 # "none" /\ K2 # "none" /\ K1 # K2) =>
                   /\ HasLeaf(lines, leaves, k + 1)
                   /\ LET one == LeafOf(lines, leaves, k)
                          two == LeafOf(lines, leaves, k + 1)
                      IN  /\ one.type = K1
                          /\ two.type = K2
                          /\ two.block = one.block + 1
                          /\ one.item = Len(adf.content[one.block].content)
                          /\ two.item = 1
                          /\ one.text = ItemText(lines[k])
                          /\ two.text = ItemText(lines[k + 1])
        /\ \A k \in 1..Len(lines) :
             ListKind(lines[k]) # "none" =>
               /\ HasLeaf(lines, leaves, k)
               /\ LeafOf(lines, leaves, k).type = ListKind(lines[k])

C15_Witness ==
  /\ Encoded
  /\ Len(InputLines) = 3
  /\ ListKind(InputLines[1]) = "bulletList"
  /\ ListKind(InputLines[2]) = "orderedList"
  /\ ListKind(InputLines[3]) = "bulletList"
  /\ Len(adf.content) = 3
  /\ adf.content[1].type = "bulletList"
  /\ adf.content[2].type = "orderedList"
  /\ adf.content[3].type = "bulletList"

\* a line with no heading prefix and no list prefix
IsPlain(line) ==
  /\ ~StartsWith(Trim(line), <<"#", "#", " ">>)
  /\ ~StartsWith(Trim(line), <<"#", " ">>)
  /\ ListKind(line) = "none"

PlainText(lines) == \A k \in 1..Len(lines) : IsPlain(lines[k])

\* the non-blank lines, each one trimmed
TrimmedNonBlankLines(lines) ==
  LET ls == SelectSeq(lines, NonBlank)
  IN  [k \in 1..Len(ls) |-> Trim(ls[k])]

\* C16 (as claimed): for every plain text t without heading or list
\* prefixes, texts of several lines with blank or indented lines included,
\* decoding the encoding of t gives t with leading and trailing white space
\* trimmed.
C16_RoundTripIsTrim ==
  (Decoded /\ PlainText(InputLines)) => text = Trim(markdown)

\* C16 (amended): for every plain text t without heading or list prefixes,
\* decoding the encoding of t gives the non-blank lines of t, each one
\* trimmed, joined by single newlines (the empty text when t is blank).
C16_RoundTripIsTrimmedLines ==
  Decoded =>
    LET lines == InputLines
        kept == TrimmedNonBlankLines(lines)
    IN  PlainText(lines) => text = (IF kept = <<>> THEN <<>> ELSE Join(kept))

C16_Witness ==
  /\ Decoded
  /\ PlainText(InputLines)
  /\ Len(InputLines) = 3
  /\ NonBlank(InputLines[1])
  /\ IsBlank(InputLines[2])
  /\ NonBlank(InputLines[3]) /\ InputLines[3] # Trim(InputLines[3])
  /\ text = Join(<<Trim(InputLines[1]), Trim(InputLines[3])>>)
  /\ text # Trim(markdown)

\* lines a and b are list lines of one kind with at least one line between
\* them, and every line between them is blank
BlankBetween(lines, a, b) ==
  /\ a + 1 < b
  /\ ListKind(lines[a]) # "none"
  /\ ListKind(lines[a]) = ListKind(lines[b])
  /\ \A k \in (a + 1)..(b - 1) : IsBlank(lines[k])

\* lines a and b are list lines of one kind with at least one line between
\* them, and no line between them is a list line
NonListBetween(lines, a, b) ==
  /\ a + 1 < b
  /\ ListKind(lines[a]) # "none"
  /\ ListKind(lines[a]) = ListKind(lines[b])
  /\ \A k \in (a + 1)..(b - 1) : ListKind(lines[k]) = "none"

\* line b's item follows line a's item in the same list node
SameList(lines, leaves, a, b) ==
  /\ HasLeaf(lines, leaves, b)
  /\ LeafOf(lines, leaves, b).block = LeafOf(lines, leaves, a).block
  /\ LeafOf(lines, leaves, b).item = LeafOf(lines, leaves, a).item + 1

\* line b's item is the first item of a list node after the one of line a
NewList(lines, leaves, a, b) ==
  /\ HasLeaf(lines, leaves, b)
  /\ LeafOf(lines, leaves, b).block > LeafOf(lines, leaves, a).block
  /\ LeafOf(lines, leaves, b).item = 1

\* C17 (as claimed): a blank line emits no node and does not break a list:
\* two list lines of the same kind separated only by blank lines are items of
\* one list node.
C17_BlankKeepsList ==
  Encoded =>
    LET lines == InputLines
        leaves == Leaves
    IN  /\ Len(leaves) = NonBlankUpTo(lines, Len(lines))
        /\ \A a, b \in 1..Len(lines) :
             BlankBetween(lines, a, b) => SameList(lines, leaves, a, b)

\* C17 (amended): a blank line emits no node; in the revision of part_003 it
\* does not break a list (two list lines of the same kind separated only by
\* blank lines are items of one list node), in the revision of actions.ts it
\* closes the list, and the second line starts a new list node.
C17_BlankKeepsListInPart003 ==
  Encoded =>
    LET lines == InputLines
        leaves == Leaves
    IN  /\ Len(leaves) = NonBlankUpTo(lines, Len(lines))
        /\ \A a, b \in 1..Len(lines) :
             BlankBetween(lines, a, b) =>
               IF revision = "flushList" THEN SameList(lines, leaves, a, b)
               ELSE /\ NewList(lines, leaves, a, b)
                    /\ LeafOf(lines, leaves, b).block =
                         LeafOf(lines, leaves, a).block + 1

C17_Witness ==
  /\ Encoded
  /\ revision = "flushList"
  /\ Len(InputLines) = 3
  /\ BlankBetween(InputLines, 1, 3)
  /\ Len(adf.content) = 1
  /\ Len(adf.content[1].content) = 2

\* C18 (as claimed): a line that is not a list line (a blank line, a heading
\* or a plain paragraph) closes the open list: a following list line of the
\* same kind starts a new list node.
C18_NonListLineClosesList ==
  Encoded =>
    LET lines == InputLines
        leaves == Leaves
    IN  \A a, b \in 1..Len(lines) :
          NonListBetween(lines, a, b) => NewList(lines, leaves, a, b)

\* C18 (amended): a heading or a plain paragraph closes the open list, so
\* that a following list line of the same kind starts a new list node; a
\* blank line closes it in the revision of actions.ts only, and in the
\* revision of part_003 list lines of one kind separated only by blank lines
\* stay in one list node.
C18_NonBlankLineClosesList ==
  Encoded =>
    LET lines == InputLines
        leaves == Leaves
    IN  \A a, b \in 1..Len(lines) :
          NonListBetween(lines, a, b) =>
            IF revision = "flushList" /\ BlankBetween(lines, a, b)
            THEN SameList(lines, leaves, a, b)
            ELSE NewList(lines, leaves, a, b)

C18_Witness ==
  /\ Encoded
  /\ Len(InputLines) = 3
  /\ NonListBetween(InputLines, 1, 3)
  /\ ~IsBlank(InputLines[2])
  /\ Len(adf.content) = 3
  /\ adf.content[1].type = adf.content[3].type
  /\ Len(adf.content[1].content) = 1
  /\ Len(adf.content[3].content) = 1

\* t starts with one or more digits followed by ". "
DigitsDotSpace(t) ==
  \E d \in 1..Len(t) :
    /\ \A j \in 1..d : t[j] \in Digit
    /\ Len(t) >= d + 2
    /\ t[d + 1] = "."
    /\ t[d + 2] = " "

\* the class of a non-blank trimmed line t, by its prefix, in priority order
ClassOf(t) ==
  IF StartsWith(t, <<"#", "#", " ">>) THEN [type |-> "heading", level |-> 2]
  ELSE IF StartsWith(t, <<"#", " ">>) THEN [type |-> "heading", level |-> 1]
  ELSE IF DigitsDotSpace(t) THEN [type |-> "orderedList", level |-> 0]
  ELSE IF StartsWith(t, <<"-", " ">>) \/ StartsWith(t, <<"*", " ">>)
       THEN [type |-> "bulletList", level |-> 0]
  ELSE [type |-> "paragraph", level |-> 0]

\* lines that look like markdown and are none: "### k", "1." and "-"
Unrecognised ==
  { <<"#", "#", "#", " ", "k">>, <<"1", ".">>, <<"-">> }

C20_LeavesAreNonBlankLines ==
  (Encoded /\ Trim(markdown) # <<>>) =>
    LET lines == InputLines
        leaves == Leaves
    IN  /\ adf # Null
        /\ adf.type = "doc"
        /\ Len(leaves) = Len(SelectSeq(lines, NonBlank))
        /\ \A k \in 1..Len(lines) :
             NonBlank(lines[k]) =>
               /\ LeafOf(lines, leaves, k).text = LineText(lines[k])
               /\ LeafOf(lines, leaves, k).type = ClassOf(Trim(lines[k])).type
        /\ \A m \in 1..(Len(leaves) - 1) :
             \/ /\ leaves[m + 1].block = leaves[m].block + 1
                /\ leaves[m + 1].item \in {0, 1}
             \/ /\ leaves[m + 1].block = leaves[m].block
                /\ leaves[m + 1].item = leaves[m].item + 1

C20_Witness ==
  /\ Encoded
  /\ Len(InputLines) = 3
  /\ ListKind(InputLines[1]) # "none"
  /\ IsBlank(InputLines[2])
  /\ ClassOf(Trim(InputLines[3])).type = "heading"
  /\ Len(Leaves) = 2
  /\ Leaves[1].text = ItemText(InputLines[1])
  /\ Leaves[2].text = LineText(InputLines[3])
  /\ Leaves[1].text # Leaves[2].text

----------------------------------------------------------------------------
\* Properties of the decoder (SpecDecoder)

\* the decoder was handed a bare string
IsBareString == adf # Null /\ adf.type = "string"

\* the decoder was handed an object with a content array
IsDocument == adf # Null /\ adf.type \notin {"string", "number"} /\ "content" \in DOMAIN adf

\* C21: the decoder returns the empty string for an absent or null input, and
\* returns a bare string exactly as it is, neither trimmed nor with its
\* newlines normalised.
C21_NullAndStringPassThrough ==
  /\ adf = Null => (tpc # "thrown" /\ (Decoded => text = <<>>))
  /\ IsBareString => (tpc # "thrown" /\ (Decoded => text = adf.value))

C21_Witness ==
  /\ Decoded
  /\ IsBareString
  /\ adf.value # Normalise(adf.value)
  /\ text = adf.value

\* the accumulated text once the first k nodes of the content were visited
Accumulated(content, k) == TraverseNodes(SubSeq(content, 1, k), <<>>)

\* the accumulated text when the paragraph content[k] has been visited and
\* the newline is about to be considered
BeforeNewline(content, k) ==
  IF "content" \in DOMAIN content[k]
  THEN TraverseNodes(content[k].content, Accumulated(content, k - 1))
  ELSE Accumulated(content, k - 1)

\* content[k] is a paragraph of the document
IsParagraph(content, k) == content[k] # Null /\ content[k].type = "paragraph"

\* C22 (as claimed): after each paragraph is visited, if the accumulated
\* text is non-empty and does not end in a newline then exactly one newline
\* is appended; otherwise the accumulated text is left as it is.
C22_NewlineAfterParagraph ==
  (Decoded /\ IsDocument) =>
    \A k \in 1..Len(adf.content) :
      IsParagraph(adf.content, k) =>
        LET before == BeforeNewline(adf.content, k)
        IN  Accumulated(adf.content, k) =
              (IF Len(before) > 0 /\ ~EndsWith(before, <<"\n">>)
               THEN before \o <<"\n">> ELSE before)

\* C22 (amended): after each paragraph is visited, if the accumulated text
\* holds a character that is not white space and does not end in a newline
\* then exactly one newline is appended; otherwise (the accumulated text is
\* empty, is white space only, or ends in a newline) it is left as it is.
C22_NewlineAfterNonBlankParagraph ==
  (Decoded /\ IsDocument) =>
    \A k \in 1..Len(adf.content) :
      IsParagraph(adf.content, k) =>
        LET before == BeforeNewline(adf.content, k)
        IN  Accumulated(adf.content, k) =
              (IF Len(Trim(before)) > 0 /\ ~EndsWith(before, <<"\n">>)
               THEN before \o <<"\n">> ELSE before)

C22_Witness ==
  /\ Decoded
  /\ IsDocument
  /\ Len(adf.content) = 3
  /\ \A k \in 1..3 : IsParagraph(adf.content, k)
  /\ BeforeNewline(adf.content, 1) = <<" ">>
  /\ Accumulated(adf.content, 1) = <<" ">>
  /\ Accumulated(adf.content, 2) = <<" ", "a", "\n">>
  /\ BeforeNewline(adf.content, 3) = <<" ", "a", "\n">>
  /\ Accumulated(adf.content, 3) = <<" ", "a", "\n">>
  /\ text = <<"a">>

\* s has a white-space character immediately before a newline
SpaceBeforeNewline(s) ==
  \E j \in 2..Len(s) : s[j] = "\n" /\ s[j - 1] \in WhiteSpace

\* C23: for a document, the decoder's output has no white space at either
\* end and no white-space character immediately before a newline, hence no
\* two newlines in a row.
C23_OutputNormalised ==
  (Decoded /\ IsDocument) =>
    /\ text = Trim(text)
    /\ ~SpaceBeforeNewline(text)
    /\ \A j \in 2..Len(text) : ~(text[j - 1] = "\n" /\ text[j] = "\n")

C23_Witness ==
  /\ Decoded
  /\ IsDocument
  /\ LET textContent == TraverseNodes(adf.content, <<>>)
     IN  /\ SpaceBeforeNewline(Trim(textContent))
         /\ textContent # Trim(textContent)
  /\ \E j \in 1..Len(text) : text[j] = "\n"


\* the decoder was handed a value that is not an object, or an object with
\* no content array
IsMalformed ==
  adf # Null /\ (adf.type = "number" \/ (adf.type # "string" /\ "content" \notin DOMAIN adf))

\* C26: the decoder never fails: a value that is not an object, or an object
\* without a content array, gives the empty string, and a content array
\* with unrecognised, null or content-less nodes is decoded without an error.
C26_DecoderNeverFails ==
  /\ tpc # "thrown"
  /\ (Decoded /\ IsMalformed) => text = <<>>


----------------------------------------------------------------------------
\* Properties of textToAdf (SpecDescription)

\* C27: textToAdf returns null for every empty or white-space-only
\* description, and for any other description never a document with an empty
\* block list or with a paragraph whose text run is empty.
C27_TextToAdfBlank ==
  Encoded =>
    /\ Trim(markdown) = <<>> => adf = Null
    /\ adf # Null =>
         /\ Len(adf.content) > 0
         /\ \A k \in 1..Len(adf.content) :
              /\ Len(adf.content[k].content) = 1
              /\ adf.content[k].content[1].text # <<>>

----------------------------------------------------------------------------
\* Further properties of the ticket creation (Spec)

\* the number of requests posted for node n
CallsFor(n) == Cardinality({k \in 1..Len(calls) : calls[k].node = n})

\* the terminal states of a node once the action has returned
Created(n) == status[n] = "created"

Failed(n) == status[n] = "failed"

Skipped(n) == status[n] = "pending"

\* C24: once the action has returned, every draft node is Created, Failed or
\* Skipped; exactly one request was posted for a Created or Failed node and
\* none for a Skipped one; a node is Skipped exactly when one of its proper
\* ancestors is Failed; and at no time were two requests posted for a node.
C24_TerminalStates ==
  /\ \A n \in Nodes : CallsFor(n) <= 1
  /\ Returned =>
       \A n \in Nodes :
         /\ Created(n) \/ Failed(n) \/ Skipped(n)
         /\ (Created(n) \/ Failed(n)) => CallsFor(n) = 1
         /\ Skipped(n) => CallsFor(n) = 0
         /\ Skipped(n) <=> \E a \in Ancestors(parentOf, n) : Failed(a)
         /\ Created(n) <=> n \in CreatedNodes
         /\ Failed(n) <=> n \in ErrorNodes

C24_Witness ==
  /\ Returned
  /\ size = 3
  /\ \E n \in Nodes : Created(n)
  /\ \E n \in Nodes : Failed(n) /\ parentOf[n] # 0
  /\ \E n \in Nodes : Skipped(n)

\* the request posted for calls[k] was answered with a created issue
Succeeded(k) == status[calls[k].node] = "created"

\* the nodes of the successful requests, in the order of the requests
SucceededNodes ==
  LET ks == SelectSeq([k \in 1..Len(calls) |-> k], Succeeded)
  IN  [j \in 1..Len(ks) |-> calls[ks[j]].node]

\* C25: createdTickets is the sequence of the successful requests in
\* pre-order depth-first order of the draft (increasing node number): one
\* entry for each created node, with the key returned for it and its own
\* summary and kind, a parent's entry before those of its descendants and
\* siblings in their draft order.
C25_CreatedTicketsPreOrder ==
  LET created == createdTicketsResult
  IN  /\ [k \in 1..Len(created) |-> created[k].summary] = SucceededNodes
      /\ \A k \in 1..Len(created) :
           /\ created[k].key = keyOf[created[k].summary]
           /\ created[k].key # NoKey
           /\ created[k].type = kind[created[k].summary]
      /\ \A j, k \in 1..Len(created) :
           j < k => created[j].summary < created[k].summary
      /\ \A k \in 1..Len(created) :
           \A a \in Ancestors(parentOf, created[k].summary) :
             \E j \in 1..(k - 1) : created[j].summary = a
      /\ Returned => result.createdTickets = created

C25_Witness ==
  /\ Returned
  /\ size = 3
  /\ parentOf = <<0, 1, 1>>
  /\ Len(result.createdTickets) = 3
  /\ [k \in 1..3 |-> result.createdTickets[k].summary] = <<1, 2, 3>>

\* C28: for every finite draft, if every request is answered in the end, the
\* action returns a result in the end, having posted at most one request for
\* each draft node.
C28_Terminates ==
  /\ <>Returned
  /\ [](\A n \in Nodes : CallsFor(n) <= 1)

\* C29: whenever the returned success flag is true for a non-empty draft,
\* createdTickets has exactly one entry for every node of the draft (its
\* length is the number of nodes counted recursively): no node was skipped or
\* left uncreated.
C29_SuccessMeansAllCreated ==
  (Returned /\ result.success /\ size > 0) =>
    /\ Len(result.createdTickets) = countAllDraftTickets
    /\ countAllDraftTickets = size
    /\ {result.createdTickets[k].summary : k \in 1..Len(result.createdTickets)} = Nodes
    /\ \A n \in Nodes : Created(n)

C29_Witness ==
  /\ Returned
  /\ result.success
  /\ size = 3
  /\ \E n \in Nodes : parentOf[n] # 0
  /\ Len(result.createdTickets) = 3

----------------------------------------------------------------------------
\* Batching (SpecBatch)

RECURSIVE Unbatched(_, _)
\* the requests of one sequential traversal of list (createTicketsRecursively
\* of part_004, with no batches), the requests being answered as status says
Unbatched(list, parentJiraKey) ==
  IF list = <<>> THEN <<>>
  ELSE LET n == Head(list)
       IN  <<Payload(n, parentJiraKey)>>
           \o (IF status[n] = "created"
               THEN Unbatched(Children(n), NewParentKey(n, keyOf[n]))
               ELSE <<>>)
           \o Unbatched(Tail(list), parentJiraKey)

IsCreatedCall(call) == status[call.node] = "created"

IsFailedCall(call) == status[call.node] = "failed"

\* createdTickets of the sequential traversal
UnbatchedCreated ==
  LET cs == SelectSeq(Unbatched(tickets, NoKey), IsCreatedCall)
  IN  [k \in 1..Len(cs) |->
         [key |-> keyOf[cs[k].node], summary |-> cs[k].node, type |-> kind[cs[k].node]]]

\* errorMessages of the sequential traversal
UnbatchedErrors ==
  LET cs == SelectSeq(Unbatched(tickets, NoKey), IsFailedCall)
  IN  [k \in 1..Len(cs) |-> ErrorMessage(cs[k].node)]

\* C30: processing the root list in batches of 10 gives what one sequential
\* traversal of all the roots gives: for every root list and all answers of
\* the tracker, the requests (order and arguments), createdTickets and the
\* recorded errors are the same, and no root is skipped or processed twice
\* at a batch boundary.
C30_BatchingIsSequential ==
  /\ \A n \in Nodes : CallsFor(n) <= 1
  /\ Returned =>
       /\ calls = Unbatched(tickets, NoKey)
       /\ result.createdTickets = UnbatchedCreated
       /\ errorMessages = UnbatchedErrors
       /\ \A n \in Nodes : parentOf[n] = 0 => CallsFor(n) = 1

C30_Witness ==
  /\ Returned
  /\ version = "part_003"
  /\ Len(tickets) > BATCH_SIZE
  /\ i > BATCH_SIZE
  /\ Failed(BATCH_SIZE)
  /\ Created(BATCH_SIZE + 1)
  /\ Len(calls) = Len(tickets)

====
